---- MODULE Spec2Model ----
(***************************************************************************)
(* Session gating of the Quizz-App frontend: the token slot kept in        *)
(* localStorage by src/utils/auth.js and the route guard                   *)
(* src/components/ProtectedRoute.js, rendered by the router on top of the  *)
(* browser's history stack.                                                *)
(***************************************************************************)
EXTENDS Integers, Sequences, FiniteSets

\* Longest history stack the user builds by navigating.
MaxHistory == 3

(***************************************************************************)
(* JavaScript values.  Every value is a record [t, v]: t is the type tag,  *)
(* v the text of a string (or of a boolean).                               *)
(***************************************************************************)
Str(s) == [t |-> "string", v |-> s]
Null == [t |-> "null", v |-> ""]
Undefined == [t |-> "undefined", v |-> ""]
Bool(b) == [t |-> "boolean", v |-> IF b THEN "true" ELSE "false"]
\* The completion of a call that raised instead of returning.
Throw == [t |-> "throw", v |-> "SecurityError"]

\* Variant: null and undefined stored as the empty string.
ToString_NullAsEmpty(x) ==
    IF x.t = "string" THEN x.v ELSE ""

\* The string conversion localStorage.setItem applies to its value argument.
ToString(x) ==
    IF x.t = "string" THEN x.v
    ELSE IF x.t = "null" THEN "null"
    ELSE IF x.t = "undefined" THEN "undefined"
    ELSE x.v

\* The fixed key of the token slot.
AUTH_KEY == "authToken"
\* The target of the guard's redirect.
LOGIN == "/login"

\* The arguments callers pass to setAuthToken.
TokenArgs == {Str(""), Str("abc"), Str("tok1"), Null, Undefined}

\* The locations of the router, the guarded ones and the view each wraps.
Locations == {"/login", "/dashboard", "/profile"}
GuardedLocations == {"/dashboard", "/profile"}
ViewOf(loc) ==
    IF loc = "/dashboard" THEN "Dashboard"
    ELSE IF loc = "/profile" THEN "Profile"
    ELSE "Login"

VARIABLES
    storage,    \* localStorage: a function from the keys present to strings
    available,  \* whether localStorage can be accessed at all
    history,    \* the browser's history stack (a sequence of locations)
    idx,        \* the position of the current entry in history
    guardOut,   \* what ProtectedRoute returned in the last render
    call,       \* the operation performed by the last step
    prevCall,   \* the operation performed by the step before it
    arg,        \* its argument
    ret,        \* its completion value
    lastWrite   \* the most recent setAuthToken / removeAuthToken: the
                \* operation, its argument and what the slot held before it

\* The EC2 host on which deploy-ec2.sh runs.
VARIABLES
    pc,         \* the step the script is at ("idle": no run, "exited": run over)
    exitCode,   \* the exit status of the run that is over
    asRoot,     \* whether the run has EUID 0
    package,    \* /tmp/deploy.tar.gz: whether it exists and the build it holds
    deployDir,  \* /var/www/quizz-app: whether it exists and the builds whose files it holds
    backups,    \* /var/backups/quizz-app: the archives, each with its mtime and content
    clock,      \* the mtime of the newest file written on the host
    backupFile, \* BACKUP_FILE of this run, by its mtime (0: not set)
    nginx,      \* the nginx service: installed, active, enabled at boot
    site,       \* the site of the app: configuration written, link in sites-enabled
    log,        \* the commands this run has executed, in order
    runStart,   \* deployDir, site and nginx as the run found them
    runs        \* the number of runs started

appVars == <<storage, available, history, idx, guardOut, call, prevCall, arg, ret, lastWrite>>

deployVars == <<pc, exitCode, asRoot, package, deployDir, backups, clock, backupFile,
                nginx, site, log, runStart, runs>>

vars == <<appVars, deployVars>>

(***************************************************************************)
(* localStorage                                                            *)
(***************************************************************************)
getItem(k) ==
    IF ~available THEN Throw
    ELSE IF k \in DOMAIN storage THEN Str(storage[k])
    ELSE Null

setItem(k, x) ==
    [j \in (DOMAIN storage) \cup {k} |-> IF j = k THEN ToString(x) ELSE storage[j]]

removeItem(k) ==
    [j \in (DOMAIN storage) \ {k} |-> storage[j]]

(***************************************************************************)
(* src/utils/auth.js                                                       *)
(***************************************************************************)
\* Variant: a truthiness test of the stored value instead of "!== null".
isAuthenticated_Truthy ==
    LET item == getItem(AUTH_KEY)
    IN  IF item = Throw THEN Throw ELSE Bool(item # Null /\ item # Str(""))

isAuthenticated ==
    LET item == getItem(AUTH_KEY)
    IN  IF item = Throw THEN Throw ELSE Bool(item # Null)

\* Variant: the read uses another key than the writes.
getAuthToken_OtherKey == getItem("token")

getAuthToken == getItem(AUTH_KEY)

\* Variant: an empty token is not written.
StorageAfterSet_SkipEmpty(token) ==
    IF ToString(token) = "" THEN storage ELSE setItem(AUTH_KEY, token)

\* Variant: a populated slot is kept (first write wins).
StorageAfterSet_KeepFirst(token) ==
    IF AUTH_KEY \in DOMAIN storage THEN storage ELSE setItem(AUTH_KEY, token)

\* Variant: a null or undefined token clears the slot.
StorageAfterSet_NullClears(token) ==
    IF token.t \in {"null", "undefined"} THEN removeItem(AUTH_KEY)
    ELSE setItem(AUTH_KEY, token)

StorageAfterSet(token) == setItem(AUTH_KEY, token)

StorageAfterRemove == removeItem(AUTH_KEY)

(***************************************************************************)
(* src/components/ProtectedRoute.js                                        *)
(***************************************************************************)
NoElement == [kind |-> "none", to |-> "", replace |-> FALSE, children |-> ""]
ThrownElement == [kind |-> "throw", to |-> "", replace |-> FALSE, children |-> ""]
NavigateElement(to, replace) ==
    [kind |-> "Navigate", to |-> to, replace |-> replace, children |-> ""]
ChildrenElement(children) ==
    [kind |-> "children", to |-> "", replace |-> FALSE, children |-> children]

\* Variant: the test of the guard without its negation.
ProtectedRoute_Inverted(children) ==
    IF isAuthenticated = Throw THEN ThrownElement
    ELSE IF isAuthenticated = Bool(TRUE) THEN NavigateElement(LOGIN, TRUE)
    ELSE ChildrenElement(children)

\* Variant: the guard keeps the outcome of its previous evaluation.
ProtectedRoute_Memoized(children) ==
    IF guardOut.kind \in {"Navigate", "children"} THEN guardOut
    ELSE IF isAuthenticated = Throw THEN ThrownElement
    ELSE IF isAuthenticated = Bool(FALSE) THEN NavigateElement(LOGIN, TRUE)
    ELSE ChildrenElement(children)

\* Variant: the redirect without the replace attribute.
ProtectedRoute_Push(children) ==
    IF isAuthenticated = Throw THEN ThrownElement
    ELSE IF isAuthenticated = Bool(FALSE) THEN NavigateElement(LOGIN, FALSE)
    ELSE ChildrenElement(children)

\* Variant: a failing read is taken for "no token" (fail closed).
ProtectedRoute_FailClosed(children) ==
    IF isAuthenticated = Throw THEN NavigateElement(LOGIN, TRUE)
    ELSE IF isAuthenticated = Bool(FALSE) THEN NavigateElement(LOGIN, TRUE)
    ELSE ChildrenElement(children)

ProtectedRoute(children) ==
    IF isAuthenticated = Throw THEN ThrownElement
    ELSE IF isAuthenticated = Bool(FALSE) THEN NavigateElement(LOGIN, TRUE)
    ELSE ChildrenElement(children)

(***************************************************************************)
(* The router: a location change pushes an entry; rendering a <Navigate>   *)
(* element replaces the current entry (replace) or pushes a new one.       *)
(***************************************************************************)
Push(h, i, loc) == [history |-> Append(SubSeq(h, 1, i), loc), idx |-> i + 1]

Replace(h, i, loc) == [history |-> [h EXCEPT ![i] = loc], idx |-> i]

\* The state of the page after the location h[i] has been rendered.
Render(h, i) ==
    IF h[i] \in GuardedLocations
    THEN LET e == ProtectedRoute(ViewOf(h[i]))
             n == IF e.kind # "Navigate" THEN [history |-> h, idx |-> i]
                  ELSE IF e.replace THEN Replace(h, i, e.to)
                  ELSE Push(h, i, e.to)
         IN  [history |-> n.history, idx |-> n.idx, guardOut |-> e]
    ELSE [history |-> h, idx |-> i, guardOut |-> NoElement]

\* The client as it is first opened: nothing stored, on /login.
AppInit ==
    /\ storage = << >>
    /\ available = TRUE
    /\ history = <<LOGIN>>
    /\ idx = 1
    /\ guardOut = NoElement
    /\ call = "init"
    /\ prevCall = "init"
    /\ arg = Undefined
    /\ ret = Undefined
    /\ lastWrite = [op |-> "none", arg |-> Undefined, old |-> Null]

\* A host on which the script is not being run.
HostIdle ==
    /\ pc = "idle"
    /\ exitCode = 0
    /\ asRoot = FALSE
    /\ package = [exists |-> FALSE, build |-> 0]
    /\ deployDir = [exists |-> FALSE, files |-> {}]
    /\ backups = {}
    /\ clock = 0
    /\ backupFile = 0
    /\ nginx = [installed |-> FALSE, active |-> FALSE, enabled |-> FALSE]
    /\ site = [config |-> FALSE, enabled |-> FALSE]
    /\ log = << >>
    /\ runStart = [deployDir |-> deployDir, site |-> site, nginx |-> nginx]
    /\ runs = 0

Init ==
    /\ AppInit
    /\ HostIdle

\* setAuthToken(token): the login action's write.
setAuthToken(token) ==
    /\ call' = "setAuthToken"
    /\ prevCall' = call
    /\ arg' = token
    /\ IF available
       THEN /\ storage' = StorageAfterSet(token)
            /\ ret' = Undefined
            /\ lastWrite' = [op |-> "set", arg |-> token, old |-> getItem(AUTH_KEY)]
       ELSE /\ ret' = Throw
            /\ UNCHANGED <<storage, lastWrite>>
    /\ UNCHANGED <<available, history, idx, guardOut>>
    /\ UNCHANGED deployVars

\* Variant: removing a key that is not there raises.
removeAuthToken_Strict ==
    /\ call' = "removeAuthToken"
    /\ prevCall' = call
    /\ arg' = Undefined
    /\ IF available /\ AUTH_KEY \in DOMAIN storage
       THEN /\ storage' = StorageAfterRemove
            /\ ret' = Undefined
            /\ lastWrite' = [op |-> "clear", arg |-> Undefined, old |-> getItem(AUTH_KEY)]
       ELSE /\ ret' = Throw
            /\ UNCHANGED <<storage, lastWrite>>
    /\ UNCHANGED <<available, history, idx, guardOut>>
    /\ UNCHANGED deployVars

\* removeAuthToken(): the logout action's delete.
removeAuthToken ==
    /\ call' = "removeAuthToken"
    /\ prevCall' = call
    /\ arg' = Undefined
    /\ IF available
       THEN /\ storage' = StorageAfterRemove
            /\ ret' = Undefined
            /\ lastWrite' = [op |-> "clear", arg |-> Undefined, old |-> getItem(AUTH_KEY)]
       ELSE /\ ret' = Throw
            /\ UNCHANGED <<storage, lastWrite>>
    /\ UNCHANGED <<available, history, idx, guardOut>>
    /\ UNCHANGED deployVars

\* A call of isAuthenticated() on its own.
CallIsAuthenticated ==
    /\ call' = "isAuthenticated"
    /\ prevCall' = call
    /\ arg' = Undefined
    /\ ret' = isAuthenticated
    /\ UNCHANGED <<storage, available, history, idx, guardOut, lastWrite>>
    /\ UNCHANGED deployVars

\* A call of getAuthToken().
CallGetAuthToken ==
    /\ call' = "getAuthToken"
    /\ prevCall' = call
    /\ arg' = Undefined
    /\ ret' = getAuthToken
    /\ UNCHANGED <<storage, available, history, idx, guardOut, lastWrite>>
    /\ UNCHANGED deployVars

\* Variant: a rendered session is used up (the token expires on render).
Show_Expiring(r) ==
    /\ history' = r.history
    /\ idx' = r.idx
    /\ guardOut' = r.guardOut
    /\ ret' = IF r.guardOut.kind = "throw" THEN Throw ELSE Undefined
    /\ storage' = IF r.guardOut.kind = "children" THEN removeItem(AUTH_KEY) ELSE storage
    /\ UNCHANGED <<available, lastWrite>>
    /\ UNCHANGED deployVars

\* The page applies the outcome r of a render; rendering reads the slot only.
Show(r) ==
    /\ history' = r.history
    /\ idx' = r.idx
    /\ guardOut' = r.guardOut
    /\ ret' = IF r.guardOut.kind = "throw" THEN Throw ELSE Undefined
    /\ UNCHANGED <<storage, available, lastWrite>>
    /\ UNCHANGED deployVars

\* The user navigates to loc: a new entry is pushed and the route rendered.
NavigateTo(loc) ==
    /\ idx < MaxHistory
    /\ call' = "navigate"
    /\ prevCall' = call
    /\ arg' = Str(loc)
    /\ LET p == Push(history, idx, loc) IN Show(Render(p.history, p.idx))

\* The user presses "back": the previous entry becomes current and is rendered.
GoBack ==
    /\ idx > 1
    /\ call' = "back"
    /\ prevCall' = call
    /\ arg' = Undefined
    /\ Show(Render(history, idx - 1))

\* The current location is rendered again (a re-render of the mounted route).
Rerender ==
    /\ call' = "render"
    /\ prevCall' = call
    /\ arg' = Undefined
    /\ Show(Render(history, idx))

Next ==
    \/ \E token \in TokenArgs : setAuthToken(token)
    \/ removeAuthToken
    \/ CallIsAuthenticated
    \/ CallGetAuthToken
    \/ \E loc \in Locations : NavigateTo(loc)
    \/ GoBack
    \/ Rerender

\* localStorage stays accessible throughout: no step changes available.
Spec == Init /\ [][Next]_vars

(***************************************************************************)
(* Restarts of the client.  localStorage is the origin's durable store:    *)
(* it outlives the page, while the history stack and the rendered elements *)
(* belong to the running client and start afresh.                          *)
(***************************************************************************)
\* Variant: the slot lives in a per-session store that a restart empties.
Restart_SessionStore ==
    /\ call' = "restart"
    /\ prevCall' = call
    /\ arg' = Undefined
    /\ ret' = Undefined
    /\ history' = <<LOGIN>>
    /\ idx' = 1
    /\ guardOut' = NoElement
    /\ storage' = << >>
    /\ UNCHANGED <<available, lastWrite>>
    /\ UNCHANGED deployVars

\* The client is closed and opened again on /login.
Restart ==
    /\ call' = "restart"
    /\ prevCall' = call
    /\ arg' = Undefined
    /\ ret' = Undefined
    /\ history' = <<LOGIN>>
    /\ idx' = 1
    /\ guardOut' = NoElement
    /\ UNCHANGED <<storage, available, lastWrite>>
    /\ UNCHANGED deployVars

NextRestart ==
    \/ Next
    \/ Restart

SpecRestart == Init /\ [][NextRestart]_vars

(***************************************************************************)
(* Persistence unavailability: the hosting environment makes localStorage  *)
(* inaccessible (storage disabled) and accessible again; while it is       *)
(* inaccessible every access from auth.js raises.                          *)
(***************************************************************************)
StorageFailure ==
    /\ available
    /\ available' = FALSE
    /\ call' = "storageFailure"
    /\ prevCall' = call
    /\ arg' = Undefined
    /\ ret' = Undefined
    /\ UNCHANGED <<storage, history, idx, guardOut, lastWrite>>
    /\ UNCHANGED deployVars

StorageRecovery ==
    /\ ~available
    /\ available' = TRUE
    /\ call' = "storageRecovery"
    /\ prevCall' = call
    /\ arg' = Undefined
    /\ ret' = Undefined
    /\ UNCHANGED <<storage, history, idx, guardOut, lastWrite>>
    /\ UNCHANGED deployVars

NextFail ==
    \/ Next
    \/ StorageFailure
    \/ StorageRecovery

SpecFail == Init /\ [][NextFail]_vars

(***************************************************************************)
(* deploy-ec2.sh: one action per command of the script.  Under set -e a    *)
(* command that fails outside a condition or a || list ends the run with   *)
(* that command's status.                                                  *)
(***************************************************************************)
\* Archives already in the backup directory when the first run starts.
MaxOldBackups == 5
\* Runs of the script on the host.
MaxRuns == 2
\* tail -n +6: the first line of "ls -t" that is passed on to rm.
TailStart == 6

\* The run ends with the given status.
Exit(status) ==
    /\ pc' = "exited"
    /\ exitCode' = status

\* Variant: ls -tr, oldest first.
LsT_Reversed(dir) ==
    [i \in 1..Cardinality(dir) |->
        CHOOSE b \in dir : Cardinality({o \in dir : o.mtime < b.mtime}) = i - 1]

\* ls -t: the entries of a directory, most recently modified first.
LsT(dir) ==
    [i \in 1..Cardinality(dir) |->
        CHOOSE b \in dir : Cardinality({o \in dir : o.mtime > b.mtime}) = i - 1]

\* tail -n +k: the lines from the k-th on.
TailFrom(lines, k) ==
    IF k > Len(lines) THEN << >> ELSE SubSeq(lines, k, Len(lines))

\* xargs -r rm --: the directory without the entries named.
Rm(dir, names) == dir \ {names[i] : i \in 1..Len(names)}

\* if [ "$EUID" -ne 0 ]; then exit 1
CheckRoot ==
    /\ pc = "root"
    /\ IF asRoot
       THEN /\ pc' = "backup"
            /\ UNCHANGED exitCode
       ELSE Exit(1)
    /\ UNCHANGED <<asRoot, package, deployDir, backups, clock, backupFile,
                   nginx, site, log, runStart, runs>>
    /\ UNCHANGED appVars

\* mkdir -p "$BACKUP_DIR"; if [ -d "$DEPLOY_DIR" ]: tar -czf "$BACKUP_FILE" ... || true
\* tar either writes the archive or fails; its failure is discarded.
Backup ==
    /\ pc = "backup"
    /\ pc' = "extract"
    /\ IF deployDir.exists
       THEN /\ \E tarOk \in BOOLEAN :
                 backups' = IF tarOk
                            THEN backups \cup {[mtime |-> clock + 1, files |-> deployDir.files]}
                            ELSE backups
            /\ clock' = clock + 1
            /\ backupFile' = clock + 1
            /\ log' = Append(log, "backup")
       ELSE UNCHANGED <<backups, clock, backupFile, log>>
    /\ UNCHANGED <<exitCode, asRoot, package, deployDir, nginx, site, runStart, runs>>
    /\ UNCHANGED appVars

\* Variant: a missing package is reported and the run goes on.
Extract_NoExit ==
    /\ pc = "extract"
    /\ IF package.exists
       THEN \E tarOk \in BOOLEAN :
              /\ log' = Append(log, "extract")
              /\ IF tarOk
                 THEN /\ deployDir' = [exists |-> TRUE,
                                       files |-> deployDir.files \cup {package.build}]
                      /\ pc' = "permissions"
                      /\ UNCHANGED exitCode
                 ELSE /\ \E partial \in BOOLEAN :
                           deployDir' = [exists |-> TRUE,
                                         files |-> IF partial
                                                   THEN deployDir.files \cup {package.build}
                                                   ELSE deployDir.files]
                      /\ Exit(2)
       ELSE /\ deployDir' = [exists |-> TRUE, files |-> deployDir.files]
            /\ log' = log
            /\ pc' = "permissions"
            /\ UNCHANGED exitCode
    /\ UNCHANGED <<asRoot, package, backups, clock, backupFile, nginx, site, runStart, runs>>
    /\ UNCHANGED appVars

\* mkdir -p "$DEPLOY_DIR"; if [ -f "$DEPLOY_PACKAGE" ]: tar -xzf ... else exit 1
\* tar extracts over the directory: the files already there stay.
Extract ==
    /\ pc = "extract"
    /\ IF package.exists
       THEN \E tarOk \in BOOLEAN :
              /\ log' = Append(log, "extract")
              /\ IF tarOk
                 THEN /\ deployDir' = [exists |-> TRUE,
                                       files |-> deployDir.files \cup {package.build}]
                      /\ pc' = "permissions"
                      /\ UNCHANGED exitCode
                 ELSE /\ \E partial \in BOOLEAN :
                           deployDir' = [exists |-> TRUE,
                                         files |-> IF partial
                                                   THEN deployDir.files \cup {package.build}
                                                   ELSE deployDir.files]
                      /\ Exit(2)
       ELSE /\ deployDir' = [exists |-> TRUE, files |-> deployDir.files]
            /\ log' = log
            /\ Exit(1)
    /\ UNCHANGED <<asRoot, package, backups, clock, backupFile, nginx, site, runStart, runs>>
    /\ UNCHANGED appVars

\* chown -R www-data:www-data; chmod -R 755
SetPermissions ==
    /\ pc = "permissions"
    /\ pc' = "install"
    /\ log' = Append(log, "permissions")
    /\ UNCHANGED <<exitCode, asRoot, package, deployDir, backups, clock, backupFile,
                   nginx, site, runStart, runs>>
    /\ UNCHANGED appVars

\* if ! command -v nginx: apt-get update; apt-get install -y nginx
\* (the package starts the service once installed).
InstallNginx ==
    /\ pc = "install"
    /\ IF nginx.installed
       THEN /\ pc' = "configure"
            /\ UNCHANGED <<exitCode, nginx, log>>
       ELSE \E aptOk \in BOOLEAN :
              /\ log' = Append(log, "install")
              /\ IF aptOk
                 THEN /\ nginx' = [nginx EXCEPT !.installed = TRUE, !.active = TRUE]
                      /\ pc' = "configure"
                      /\ UNCHANGED exitCode
                 ELSE /\ Exit(100)
                      /\ UNCHANGED nginx
    /\ UNCHANGED <<asRoot, package, deployDir, backups, clock, backupFile,
                   site, runStart, runs>>
    /\ UNCHANGED appVars

\* cat > "$NGINX_CONFIG"; ln -sf "$NGINX_CONFIG" "$NGINX_ENABLED"
Configure ==
    /\ pc = "configure"
    /\ pc' = "test"
    /\ site' = [config |-> TRUE, enabled |-> TRUE]
    /\ log' = Append(log, "configure")
    /\ UNCHANGED <<exitCode, asRoot, package, deployDir, backups, clock, backupFile,
                   nginx, runStart, runs>>
    /\ UNCHANGED appVars

\* Variant: the result of nginx -t is reported and the run goes on.
TestNginx_Ignored ==
    /\ pc = "test"
    /\ \E valid \in BOOLEAN :
         /\ log' = Append(log, IF valid THEN "test-ok" ELSE "test-failed")
         /\ pc' = "reload"
         /\ UNCHANGED exitCode
    /\ UNCHANGED <<asRoot, package, deployDir, backups, clock, backupFile,
                   nginx, site, runStart, runs>>
    /\ UNCHANGED appVars

\* if nginx -t; then ... else exit 1
TestNginx ==
    /\ pc = "test"
    /\ \E valid \in BOOLEAN :
         /\ log' = Append(log, IF valid THEN "test-ok" ELSE "test-failed")
         /\ IF valid
            THEN /\ pc' = "reload"
                 /\ UNCHANGED exitCode
            ELSE Exit(1)
    /\ UNCHANGED <<asRoot, package, deployDir, backups, clock, backupFile,
                   nginx, site, runStart, runs>>
    /\ UNCHANGED appVars

\* systemctl reload nginx: fails on a service that is not active, and may
\* fail on one that is.
ReloadNginx ==
    /\ pc = "reload"
    /\ log' = Append(log, "reload")
    /\ \E reloadOk \in {nginx.active, FALSE} :
         IF reloadOk
         THEN /\ pc' = "enable"
              /\ UNCHANGED exitCode
         ELSE Exit(1)
    /\ UNCHANGED <<asRoot, package, deployDir, backups, clock, backupFile,
                   nginx, site, runStart, runs>>
    /\ UNCHANGED appVars

\* systemctl enable nginx
EnableNginx ==
    /\ pc = "enable"
    /\ pc' = "status"
    /\ nginx' = [nginx EXCEPT !.enabled = TRUE]
    /\ log' = Append(log, "enable")
    /\ UNCHANGED <<exitCode, asRoot, package, deployDir, backups, clock, backupFile,
                   site, runStart, runs>>
    /\ UNCHANGED appVars

\* if systemctl is-active --quiet nginx; then ... else systemctl start nginx
\* (the service may have stopped since the reload).
CheckStatus ==
    /\ pc = "status"
    /\ pc' = "cleanup"
    /\ \E isActive \in {nginx.active, FALSE} :
         IF isActive
         THEN UNCHANGED <<nginx, log>>
         ELSE /\ nginx' = [nginx EXCEPT !.active = TRUE]
              /\ log' = Append(log, "start")
    /\ UNCHANGED <<exitCode, asRoot, package, deployDir, backups, clock, backupFile,
                   site, runStart, runs>>
    /\ UNCHANGED appVars

\* cd "$BACKUP_DIR"; ls -t | tail -n +6 | xargs -r rm --  and the end of the script.
Cleanup ==
    /\ pc = "cleanup"
    /\ backups' = Rm(backups, TailFrom(LsT(backups), TailStart))
    /\ log' = Append(log, "cleanup")
    /\ Exit(0)
    /\ UNCHANGED <<asRoot, package, deployDir, clock, backupFile, nginx, site,
                   runStart, runs>>
    /\ UNCHANGED appVars

\* The script is run again, on the host as the last run left it, with or
\* without a newly uploaded package.
NewRun ==
    /\ pc = "exited"
    /\ runs < MaxRuns
    /\ pc' = "root"
    /\ exitCode' = 0
    /\ runs' = runs + 1
    /\ \E root \in BOOLEAN : asRoot' = root
    /\ \E uploaded \in BOOLEAN :
         package' = [exists |-> uploaded, build |-> runs + 1]
    /\ log' = << >>
    /\ backupFile' = 0
    /\ runStart' = [deployDir |-> deployDir, site |-> site, nginx |-> nginx]
    /\ UNCHANGED <<deployDir, backups, clock, nginx, site>>
    /\ UNCHANGED appVars

\* The first run starts on a host with or without an earlier deployment
\* (build 0), earlier archives of it, and nginx.
HostInit ==
    /\ pc = "root"
    /\ exitCode = 0
    /\ runs = 1
    /\ asRoot \in BOOLEAN
    /\ \E uploaded \in BOOLEAN : package = [exists |-> uploaded, build |-> 1]
    /\ \E deployed \in BOOLEAN :
         /\ deployDir = [exists |-> deployed, files |-> IF deployed THEN {0} ELSE {}]
         /\ site = [config |-> deployed, enabled |-> deployed]
    /\ \E n \in 0..MaxOldBackups :
         /\ backups = {[mtime |-> m, files |-> {0}] : m \in 1..n}
         /\ clock = n
    /\ backupFile = 0
    /\ \E installed \in BOOLEAN, active \in BOOLEAN :
         /\ active => installed
         /\ nginx = [installed |-> installed, active |-> active, enabled |-> FALSE]
    /\ log = << >>
    /\ runStart = [deployDir |-> deployDir, site |-> site, nginx |-> nginx]

InitDeploy ==
    /\ AppInit
    /\ HostInit

NextDeploy ==
    \/ CheckRoot
    \/ Backup
    \/ Extract
    \/ SetPermissions
    \/ InstallNginx
    \/ Configure
    \/ TestNginx
    \/ ReloadNginx
    \/ EnableNginx
    \/ CheckStatus
    \/ Cleanup
    \/ NewRun

SpecDeploy == InitDeploy /\ [][NextDeploy]_vars

(***************************************************************************)
(* Properties                                                              *)
(***************************************************************************)
Views == {ViewOf(loc) : loc \in GuardedLocations}
RenderCalls == {"navigate", "back", "render"}
\* The last step rendered a guarded location, so ProtectedRoute was evaluated.
GuardEvaluated == call \in RenderCalls /\ guardOut.kind # "none"
SlotPresent == AUTH_KEY \in DOMAIN storage

\* C1: whenever the authToken slot is absent (never set, or cleared), an
\* evaluation of the guard returns the redirect to /login (with replace)
\* and no children: for every children it could be given, and in every
\* render that evaluated it, which leaves the page on /login.
C1_NoTokenImpliesRedirect ==
    ~SlotPresent =>
        /\ \A c \in Views : ProtectedRoute(c) = NavigateElement(LOGIN, TRUE)
        /\ GuardEvaluated =>
              /\ guardOut.kind = "Navigate"
              /\ guardOut.to = LOGIN
              /\ guardOut.children = ""
              /\ history[idx] = LOGIN

C1_Witness ==
    /\ call = "navigate"
    /\ arg = Str("/dashboard")
    /\ lastWrite.op = "clear"
    /\ lastWrite.old = Str("abc")
    /\ ~SlotPresent
    /\ guardOut = NavigateElement(LOGIN, TRUE)

\* C2: whenever the slot holds any string, the empty string and "null"
\* included, an evaluation of the guard returns exactly the children it
\* was given and no redirect, whatever the token's contents; the page
\* stays on the guarded location.
C2_TokenPresentImpliesRender ==
    SlotPresent =>
        /\ \A c \in Views : ProtectedRoute(c) = ChildrenElement(c)
        /\ GuardEvaluated =>
              /\ guardOut.kind = "children"
              /\ guardOut.to = ""
              /\ history[idx] \in GuardedLocations
              /\ guardOut.children = ViewOf(history[idx])

C2_Witness ==
    /\ call = "navigate"
    /\ arg = Str("/profile")
    /\ SlotPresent
    /\ storage[AUTH_KEY] = ""
    /\ guardOut = ChildrenElement("Profile")
    /\ history[idx] = "/profile"

\* C3: after any interleaving of setAuthToken and removeAuthToken,
\* isAuthenticated() is true exactly when the most recent of them was a
\* setAuthToken, and every evaluation of the guard renders the children if
\* it was a setAuthToken and redirects to /login if it was a
\* removeAuthToken or there has been none, whatever earlier evaluations
\* returned.
C3_EndToEndGating ==
    /\ lastWrite.op = "set" =>
          /\ isAuthenticated = Bool(TRUE)
          /\ \A c \in Views : ProtectedRoute(c) = ChildrenElement(c)
          /\ GuardEvaluated => guardOut = ChildrenElement(ViewOf(history[idx]))
    /\ lastWrite.op \in {"clear", "none"} =>
          /\ isAuthenticated = Bool(FALSE)
          /\ \A c \in Views : ProtectedRoute(c) = NavigateElement(LOGIN, TRUE)
          /\ GuardEvaluated =>
                guardOut = NavigateElement(LOGIN, TRUE) /\ history[idx] = LOGIN
    /\ GuardEvaluated =>
          /\ guardOut.kind = "children" <=> lastWrite.op = "set"
          /\ guardOut.kind = "Navigate" <=> lastWrite.op \in {"clear", "none"}

\* setAuthToken("tok1"), removeAuthToken(), then the guard on /profile.
C3_Witness ==
    /\ lastWrite.op = "clear"
    /\ lastWrite.old = Str("tok1")
    /\ prevCall = "isAuthenticated"
    /\ call = "navigate"
    /\ arg = Str("/profile")
    /\ guardOut = NavigateElement(LOGIN, TRUE)
    /\ history[idx] = LOGIN

\* C4: immediately after setAuthToken(v) with v a string, any string,
\* getAuthToken() returns exactly v and isAuthenticated() returns true.
C4_WriteThenRead ==
    (call = "setAuthToken" /\ arg.t = "string") =>
        /\ ret = Undefined
        /\ getAuthToken = arg
        /\ isAuthenticated = Bool(TRUE)

C4_Witness ==
    /\ call = "setAuthToken"
    /\ arg = Str("")
    /\ lastWrite.old = Str("tok1")
    /\ getAuthToken = Str("")

\* C5: every removeAuthToken() returns without raising and leaves
\* isAuthenticated() false; one that directly follows another
\* removeAuthToken() changes nothing of the slot, the history or the page.
C5_IdempotentClear ==
    [][call' = "removeAuthToken" =>
          /\ ret' = Undefined
          /\ isAuthenticated' = Bool(FALSE)
          /\ call = "removeAuthToken" =>
                /\ isAuthenticated = Bool(FALSE)
                /\ storage' = storage
                /\ <<available, history, idx, guardOut, ret>>'
                     = <<available, history, idx, guardOut, ret>>]_vars

\* Two removeAuthToken() in a row: the second found the slot already empty.
C5_Witness ==
    /\ call = "removeAuthToken"
    /\ prevCall = "removeAuthToken"
    /\ lastWrite.op = "clear"
    /\ lastWrite.old = Null
    /\ ret = Undefined
    /\ isAuthenticated = Bool(FALSE)

\* C6: isAuthenticated() is true exactly when getAuthToken() is not null,
\* in every state and for the value each call returned.
C6_HasTokenIffGetToken ==
    /\ isAuthenticated \in {Bool(TRUE), Bool(FALSE)}
    /\ isAuthenticated = Bool(TRUE) <=> getAuthToken # Null
    /\ call = "isAuthenticated" => ret = Bool(getAuthToken # Null)
    /\ call = "getAuthToken" => (ret # Null <=> isAuthenticated = Bool(TRUE))

C6_Witness ==
    /\ call = "isAuthenticated"
    /\ prevCall = "getAuthToken"
    /\ ret = Bool(TRUE)
    /\ getAuthToken = Str("null")
    /\ lastWrite.old = Null

\* The location the last navigation asked for was redirected by the guard.
RedirectedNavigation ==
    /\ call = "navigate"
    /\ arg.v \in GuardedLocations
    /\ guardOut.kind = "Navigate"

\* C7 as stated: after the redirect of a navigation to the guarded
\* location L, L is nowhere in the history stack and the entry "back"
\* leads to is not L.
C7_Original ==
    RedirectedNavigation =>
        /\ \A j \in 1..Len(history) : history[j] # arg.v
        /\ idx > 1 => history[idx - 1] # arg.v

\* C7 amended: the redirect of a navigation to a guarded location leaves
\* the stack that was there before the navigation, up to its current
\* entry, followed by the single entry /login: no entry for L is added,
\* so L is in the stack only where an earlier visit had put it, and no
\* "back" ends on a guarded location while the slot is absent.
C7_ReplaceNotPush ==
    [][/\ (call' = "navigate" /\ guardOut'.kind = "Navigate") =>
            /\ history' = Append(SubSeq(history, 1, idx), LOGIN)
            /\ idx' = idx + 1
            /\ \A j \in 1..Len(history') :
                  history'[j] = arg'.v => (j <= idx /\ history[j] = arg'.v)
       /\ (call' = "back" /\ ~SlotPresent') =>
            /\ history'[idx'] \notin GuardedLocations
            /\ Len(history') = Len(history)
            /\ idx' = idx - 1]_vars

\* An unauthorized navigation to /dashboard from /login was redirected.
C7_Witness ==
    /\ RedirectedNavigation
    /\ arg = Str("/dashboard")
    /\ ~SlotPresent
    /\ history = <<LOGIN, LOGIN>>
    /\ idx = 2

\* C8: the store holds at most one entry, under the key authToken, and
\* after a setAuthToken the slot holds the string of that call's argument
\* whatever it held before (last write wins); after a removeAuthToken it
\* holds nothing.
C8_SingleSlot ==
    /\ DOMAIN storage \subseteq {AUTH_KEY}
    /\ Cardinality(DOMAIN storage) <= 1
    /\ lastWrite.op = "set" =>
          /\ SlotPresent
          /\ getAuthToken = Str(ToString(lastWrite.arg))
    /\ lastWrite.op \in {"clear", "none"} => getAuthToken = Null

\* A setAuthToken("abc") on a slot that held "tok1".
C8_Witness ==
    /\ call = "setAuthToken"
    /\ lastWrite.op = "set"
    /\ lastWrite.old = Str("tok1")
    /\ lastWrite.arg = Str("abc")
    /\ storage = [k \in {AUTH_KEY} |-> "abc"]

\* C9 as stated: a token held by the slot is a non-empty string.
C9_Original ==
    SlotPresent => storage[AUTH_KEY] # ""

\* C9 amended: a token held by the slot is the string of the argument of
\* the most recent setAuthToken; it is the empty string exactly when that
\* argument was the empty string, and non-empty otherwise.
C9_ValueIsLastArgument ==
    SlotPresent =>
        /\ lastWrite.op = "set"
        /\ storage[AUTH_KEY] = ToString(lastWrite.arg)
        /\ storage[AUTH_KEY] = "" <=> lastWrite.arg = Str("")

C9_Witness ==
    /\ call = "setAuthToken"
    /\ arg = Str("")
    /\ SlotPresent
    /\ storage[AUTH_KEY] = ""

\* C10: the slot changes only in steps of setAuthToken and
\* removeAuthToken; isAuthenticated, getAuthToken and every render of a
\* route, whether the guard renders or redirects, leave the store as it
\* was, and a removeAuthToken is the only step that empties a held slot.
C10_SlotFrame ==
    [][/\ call' \in RenderCalls \cup {"isAuthenticated", "getAuthToken"} =>
            storage' = storage
       /\ storage' # storage => call' \in {"setAuthToken", "removeAuthToken"}
       /\ (SlotPresent /\ ~SlotPresent') => call' = "removeAuthToken"]_vars

\* The token set before two successive renders of guarded views is still there.
C10_Witness ==
    /\ call \in RenderCalls
    /\ prevCall \in RenderCalls
    /\ guardOut = ChildrenElement("Dashboard")
    /\ lastWrite.arg = Str("tok1")
    /\ storage = [k \in {AUTH_KEY} |-> "tok1"]

\* C11: a restart of the client leaves the store as it was: afterwards
\* getAuthToken() returns the value of the last setAuthToken not followed
\* by a removeAuthToken (null if there is none, or the slot was cleared),
\* and the first evaluation of the guard after the restart renders the
\* children when that value is there and redirects when it is not.
C11_DurableAcrossRestart ==
    /\ [](call = "restart" =>
            /\ lastWrite.op = "set" =>
                  getAuthToken = Str(ToString(lastWrite.arg))
            /\ lastWrite.op \in {"clear", "none"} => getAuthToken = Null)
    /\ []((prevCall = "restart" /\ GuardEvaluated) =>
            /\ lastWrite.op = "set" =>
                  guardOut = ChildrenElement(ViewOf(history[idx]))
            /\ lastWrite.op \in {"clear", "none"} =>
                  guardOut = NavigateElement(LOGIN, TRUE))
    /\ [][call' = "restart" =>
            /\ storage' = storage
            /\ getAuthToken' = getAuthToken
            /\ isAuthenticated' = isAuthenticated]_vars

\* The first render after a restart shows a guarded view for the token
\* written before it.
C11_Witness ==
    /\ prevCall = "restart"
    /\ call = "navigate"
    /\ arg = Str("/dashboard")
    /\ lastWrite = [op |-> "set", arg |-> Str("tok1"), old |-> Null]
    /\ getAuthToken = Str("tok1")
    /\ guardOut = ChildrenElement("Dashboard")

\* C12: while the store cannot be read, isAuthenticated() raises, and an
\* evaluation of the guard raises with it: it returns neither the children
\* nor a redirect, the history is left as the navigation made it, and the
\* store keeps what it held.
C12_UnavailabilityPropagates ==
    /\ [](~available =>
            /\ isAuthenticated = Throw
            /\ getAuthToken = Throw
            /\ \A c \in Views : ProtectedRoute(c) = ThrownElement
            /\ GuardEvaluated =>
                  /\ guardOut = ThrownElement
                  /\ ret = Throw
                  /\ history[idx] \in GuardedLocations)
    /\ [][~available' => storage' = storage]_vars

\* A guarded view rendered while the store, which holds a token, is inaccessible.
C12_Witness ==
    /\ ~available
    /\ call = "navigate"
    /\ arg = Str("/profile")
    /\ guardOut = ThrownElement
    /\ ret = Throw
    /\ history[idx] = "/profile"
    /\ SlotPresent

\* C14: after setAuthToken(null) or setAuthToken(undefined) the slot holds
\* the string "null" or "undefined": isAuthenticated() is true and the
\* guard renders the children; isAuthenticated() goes from true to false
\* only in a removeAuthToken step.
C14_NonStringTokenKeepsSession ==
    /\ []((lastWrite.op = "set" /\ lastWrite.arg \in {Null, Undefined}) =>
            /\ SlotPresent
            /\ storage[AUTH_KEY] = (IF lastWrite.arg = Null THEN "null" ELSE "undefined")
            /\ getAuthToken.t = "string"
            /\ isAuthenticated = Bool(TRUE)
            /\ GuardEvaluated => guardOut = ChildrenElement(ViewOf(history[idx])))
    /\ [][(isAuthenticated = Bool(TRUE) /\ isAuthenticated' = Bool(FALSE)) =>
            call' = "removeAuthToken"]_vars

\* setAuthToken(null) on a populated slot, then a guarded view.
C14_Witness ==
    /\ lastWrite = [op |-> "set", arg |-> Null, old |-> Str("tok1")]
    /\ storage = [k \in {AUTH_KEY} |-> "null"]
    /\ call = "navigate"
    /\ arg = Str("/dashboard")
    /\ guardOut = ChildrenElement("Dashboard")

\* The commands of this run so far, and the positions of one of them.
Logged == {log[i] : i \in 1..Len(log)}
At(step) == {i \in 1..Len(log) : log[i] = step}
\* Every execution of step a comes before every execution of step b.
InOrder(a, b) == \A i \in At(a), j \in At(b) : i < j

\* C13 as stated: in a run that found the deployment directory, once the
\* new build is being extracted the backup directory holds the archive
\* this run made of the deployment it found; and the run's steps come in
\* the order backup, extract, configure, reload.
C13_Original ==
    /\ (runStart.deployDir.exists /\ "extract" \in Logged) =>
          \E b \in backups :
             /\ b.mtime = backupFile
             /\ b.files = runStart.deployDir.files
    /\ InOrder("backup", "extract")
    /\ InOrder("extract", "configure")
    /\ InOrder("configure", "reload")

\* C15: systemctl reload nginx is run only after nginx -t succeeded in the
\* same run; a failed nginx -t is the last command of its run, which ends
\* with status 1 without reload, enable or start, leaving the service as
\* the test found it.
C15_ReloadGatedOnTest ==
    /\ [](/\ \A i \in At("reload") : \E j \in At("test-ok") : j < i
          /\ "test-failed" \in Logged =>
                /\ pc = "exited"
                /\ exitCode = 1
                /\ log[Len(log)] = "test-failed"
                /\ Logged \cap {"reload", "enable", "start", "test-ok", "cleanup"} = {})
    /\ [][("test-failed" \in Logged' /\ pc' = "exited") =>
             (nginx' = nginx /\ pc \in {"test", "exited"})]_vars

\* A run whose nginx -t failed after the configuration was written.
C15_Witness ==
    /\ pc = "exited"
    /\ exitCode = 1
    /\ "configure" \in Logged
    /\ "test-failed" \in Logged
    /\ site.enabled
    /\ nginx.active

\* C16: the cleanup of a run that ends with status 0 leaves at most 5
\* archives: it deletes nothing but archives that were there, keeps 5 of
\* them when there were more (all of them otherwise), and every archive it
\* keeps is more recently modified than every archive it deletes.
C16_BackupRetention ==
    /\ []((pc = "exited" /\ exitCode = 0) => Cardinality(backups) <= TailStart - 1)
    /\ [][(pc' = "exited" /\ exitCode' = 0 /\ pc # "exited") =>
            /\ backups' \subseteq backups
            /\ Cardinality(backups') =
                 (IF Cardinality(backups) < TailStart
                  THEN Cardinality(backups) ELSE TailStart - 1)
            /\ \A kept \in backups', deleted \in backups \ backups' :
                  kept.mtime > deleted.mtime]_vars

\* A successful run that added its archive to five older ones: the oldest is gone.
C16_Witness ==
    /\ pc = "exited"
    /\ exitCode = 0
    /\ runs = 1
    /\ "backup" \in Logged
    /\ clock = MaxOldBackups + 1
    /\ {b.mtime : b \in backups} = 2..(MaxOldBackups + 1)

\* C17: a run that finds no /tmp/deploy.tar.gz ends with status 1 and has
\* executed neither the extraction nor any later command: the files in the
\* deployment directory, the site configuration and its link, and the
\* nginx service are as the run found them.
C17_MissingPackage ==
    (pc # "idle" /\ ~package.exists) =>
        /\ deployDir.files = runStart.deployDir.files
        /\ site = runStart.site
        /\ nginx = runStart.nginx
        /\ Logged \subseteq {"backup"}
        /\ pc \in {"root", "backup", "extract", "exited"}
        /\ pc = "exited" => exitCode = 1

\* A run as root on a host with a deployment and no package, over.
C17_Witness ==
    /\ pc = "exited"
    /\ exitCode = 1
    /\ asRoot
    /\ ~package.exists
    /\ runStart.deployDir.exists
    /\ log = <<"backup">>
    /\ deployDir = [exists |-> TRUE, files |-> {0}]

====
